---- MODULE Spec2Model ----
(***************************************************************************)
(* Incident lifecycle and action dispatch of the observability agent:      *)
(* webhook ingress -> signal detection -> incident creation ->             *)
(* analyze_and_act -> execute_actions -> status sync, the manual status    *)
(* endpoints, and the PR-monitor path through IncidentManager.             *)
(*                                                                         *)
(* One task slot per inbound event.  A task creates at most one incident   *)
(* and the incident's id is the slot number (the code draws a fresh uuid4  *)
(* per incident).  Coroutines run on one event loop: an action is the code *)
(* between two suspension points, and a task that has not yet suspended    *)
(* keeps every other task from running (Holds).                            *)
(***************************************************************************)
EXTENDS Integers, Sequences, FiniteSets, TLC

\* ------------------------------------------------------------------ bounds
\* Inbound events of a run: webhook deliveries, pull requests the monitor
\* picks up, and status requests.
MaxEvents == 2

Tasks == 1..MaxEvents
Requests == 1..MaxEvents

\* ------------------------------------------------------- text, as the code
\* Strings the detector inspects are tuples of characters.
Lower(c) ==
    CASE c = "H" -> "h" [] c = "O" -> "o" [] c = "T" -> "t"
      [] c = "F" -> "f" [] c = "I" -> "i" [] c = "X" -> "x"
      [] c = "D" -> "d" [] c = "N" -> "n" [] c = "E" -> "e"
      [] c = "P" -> "p" [] c = "C" -> "c"
      [] OTHER -> c

\* Seeded fault: the message is compared as written.
LowerStrNone(s) == s

LowerStr(s) == [k \in 1..Len(s) |-> Lower(s[k])]

\* Python's `p in s` on strings: p occurs as a contiguous substring of s.
Contains(s, p) ==
    \E k \in 0..(Len(s) - Len(p)) : SubSeq(s, k + 1, k + Len(p)) = p

AnyPattern(s, ps) == \E p \in ps : Contains(s, p)

S_fix == <<"f","i","x">>
S_hotfix == <<"h","o","t","f","i","x">>
S_urgent == <<"u","r","g","e","n","t">>
S_critical == <<"c","r","i","t","i","c","a","l">>
S_bug == <<"b","u","g">>
S_delete == <<"d","e","l","e","t","e">>

PushPatterns == {S_fix, S_hotfix, S_urgent, S_critical}
PullRequestPatterns == {S_fix, S_bug, S_critical, S_hotfix}

risky_operations ==
    { <<"d","e","l","e","t","e","_","u","s","e","r">>,
      <<"c","h","a","n","g","e","_","p","e","r","m","i","s","s","i","o","n","_","s","e","t">>,
      <<"m","o","d","i","f","y","_","p","r","o","f","i","l","e">>,
      <<"d","e","l","e","t","e","_","c","u","s","t","o","m","_","o","b","j","e","c","t">>,
      <<"c","h","a","n","g","e","_","o","r","g","_","s","e","t","t","i","n","g","s">>,
      <<"a","u","d","i","t","_","a","l","e","r","t">>,
      <<"p","e","r","m","i","s","s","i","o","n","_","c","h","a","n","g","e">> }

\* Severities are floats in the code; the model keeps them in tenths.
\* A raised exception is the record Raise; every other result carries
\* raised = FALSE.
Raise == [raised |-> TRUE]

Signal(src, ev, sev, anomaly) ==
    [raised |-> FALSE, source |-> src, event_type |-> ev,
     severity |-> sev, is_anomaly |-> anomaly]

NoSignal == [raised |-> FALSE, none |-> TRUE]

\* ------------------------------------------------------ bounded payloads
M_HOTFIX == <<"H","O","T","F","I","X">>
M_add == <<"a","d","d">>
M_prefix == <<"p","r","e","f","i","x">>
NoTitle == <<>>

\* data.commits is a list of commit messages, title the title under
\* data.pull_request when that key is present; malformed stands for a
\* payload whose entries are not mappings (the detector raises on it).
GitPayload(commits, has_pr, title, malformed) ==
    [commits |-> commits, has_pr |-> has_pr, title |-> title, malformed |-> malformed]

\* bad_nested: data.data is present and is not a container, so the
\* timestamp scan of create_incident_from_signal raises TypeError.
CopadoPayload(bad_nested) == [malformed |-> FALSE, bad_nested |-> bad_nested]

OpNone == <<>>
OpModifyProfile == <<"m","o","d","i","f","y","_","p","r","o","f","i","l","e">>
SalesforcePayload(operation, action, records_count) ==
    [operation |-> operation, action |-> action, records_count |-> records_count,
     malformed |-> FALSE]

BadNested(data) == IF "bad_nested" \in DOMAIN data THEN data.bad_nested ELSE FALSE
HasPR(data) == IF "has_pr" \in DOMAIN data THEN data.has_pr ELSE FALSE

Endpoints == {"github", "copado", "salesforce", "git"}

Webhook(ep, ev, data) == [endpoint |-> ep, event_type |-> ev, data |-> data]

\* The payloads a caller posts in the model.
WebhookInputs ==
    { Webhook("github", "push", GitPayload(<<M_add>>, FALSE, NoTitle, FALSE)),
      Webhook("github", "push", GitPayload(<<>>, FALSE, NoTitle, TRUE)),
      Webhook("github", "pull_request", GitPayload(<<>>, TRUE, S_bug, FALSE)),
      Webhook("github", "ping", GitPayload(<<M_HOTFIX>>, FALSE, NoTitle, FALSE)),
      Webhook("copado", "deployment_failed", CopadoPayload(FALSE)),
      Webhook("copado", "test_failed", CopadoPayload(TRUE)),
      Webhook("copado", "deployment_completed", CopadoPayload(FALSE)),
      Webhook("salesforce", "audit_trail", SalesforcePayload(OpNone, "DELETE", 500)),
      Webhook("salesforce", "audit_trail", SalesforcePayload(OpNone, "UPDATE", 0)),
      Webhook("git", "push", GitPayload(<<M_add, M_HOTFIX>>, FALSE, NoTitle, FALSE)),
      Webhook("git", "push", GitPayload(<<M_add>>, FALSE, NoTitle, FALSE)),
      Webhook("git", "ping", GitPayload(<<>>, FALSE, NoTitle, FALSE)) }

\* ------------------------------------------------------- signal detector
\* First commit (in list order) whose lower-cased message holds a pattern.
analyze_git_event(ev, data) ==
    IF data.malformed THEN Raise
    ELSE IF ev = "push" THEN
        IF \E k \in 1..Len(data.commits) : AnyPattern(LowerStr(data.commits[k]), PushPatterns)
        THEN Signal("git", ev, 6, TRUE)
        ELSE Signal("git", ev, 0, FALSE)
    ELSE IF ev = "pull_request" THEN
        IF AnyPattern(LowerStr(IF data.has_pr THEN data.title ELSE NoTitle), PullRequestPatterns)
        THEN Signal("git", ev, 5, TRUE)
        ELSE Signal("git", ev, 0, FALSE)
    ELSE IF ev = "hotfix_commit" THEN Signal("git", ev, 8, TRUE)
    ELSE Signal("git", ev, 0, FALSE)

severity_map(ev) ==
    CASE ev = "deployment_failed" -> 9
      [] ev = "test_failed" -> 7
      [] ev = "build_failed" -> 8
      [] ev = "pipeline_failed" -> 8
      [] OTHER -> 7

analyze_copado_event(ev, data) ==
    IF data.malformed THEN Raise
    ELSE Signal("copado", ev, severity_map(ev), TRUE)

analyze_salesforce_event(ev, data) ==
    IF data.malformed THEN Raise
    ELSE
      LET op == LowerStr(data.operation)
          first ==
            IF data.action = "DELETE" \/ Contains(op, S_delete) THEN
                IF data.records_count > 100 THEN Signal("salesforce", ev, 8, TRUE)
                ELSE IF data.records_count > 10 THEN Signal("salesforce", ev, 7, TRUE)
                ELSE Signal("salesforce", ev, 6, TRUE)
            ELSE IF AnyPattern(op, risky_operations) \/ ev = "audit_alert"
                 THEN Signal("salesforce", ev, 7, TRUE)
                 ELSE Signal("salesforce", ev, 0, FALSE)
      IN IF ev = "audit_alert" /\ ~first.is_anomaly
         THEN Signal("salesforce", ev, 6, TRUE)
         ELSE first

\* ------------------------------------------------------- action executor
Act(type, st, res) == [action_type |-> type, status |-> st, result |-> res]
Step(a) == [raised |-> FALSE, action |-> a]

JiraCreateOutcomes == {"created", "http_error", "no_credentials", "ctor_error"}
HttpOutcomes == {"ok", "error", "exception"}
SyncOutcomes == {"success", "failure", "exception"}

\* JiraUserStoryCreator: the constructor may raise (ascii encoding of the
\* credentials); create_user_story itself answers success with an issue
\* key on every path (real issue or its own demo fallback).
create_user_story(out) ==
    IF out = "ctor_error" THEN Raise
    ELSE [raised |-> FALSE, success |-> TRUE, issue_key |-> TRUE]

create_demo_user_story == Act("jira_user_story", "success", "user_story_id")

\* Seeded fault: a raising ticket creation leaves the executor.
create_jira_user_story_uncaught(out) ==
    LET result == create_user_story(out)
    IN IF result.raised THEN [raised |-> TRUE, action |-> create_demo_user_story, mapped |-> FALSE]
       ELSE [raised |-> FALSE, action |-> Act("jira_user_story", "success", "issue_key"), mapped |-> TRUE]

create_jira_user_story(out) ==
    LET result == create_user_story(out)
    IN IF result.raised THEN [raised |-> FALSE, action |-> create_demo_user_story, mapped |-> FALSE]
       ELSE IF result.success
            THEN [raised |-> FALSE, action |-> Act("jira_user_story", "success", "issue_key"), mapped |-> TRUE]
            ELSE [raised |-> FALSE, action |-> create_demo_user_story, mapped |-> FALSE]

\* Seeded fault: the comment call is made outside the try block.
post_github_comment_uncaught(has_pr, out) ==
    IF ~has_pr THEN Step(Act("github_comment", "skipped", "none"))
    ELSE IF out = "ok" THEN Step(Act("github_comment", "success", "comment_id"))
    ELSE IF out = "error" THEN Step(Act("github_comment", "failed", "error"))
    ELSE Raise

post_github_comment(has_pr, out) ==
    IF ~has_pr THEN Step(Act("github_comment", "skipped", "none"))
    ELSE IF out = "ok" THEN Step(Act("github_comment", "success", "comment_id"))
    ELSE IF out = "error" THEN Step(Act("github_comment", "failed", "error"))
    ELSE Step(Act("github_comment", "failed", "error"))

send_slack_notification(out) ==
    IF out = "ok" THEN Step(Act("slack_notification", "success", "jira_story_linked"))
    ELSE IF out = "error" THEN Step(Act("slack_notification", "failed", "status_code"))
    ELSE Step(Act("slack_notification", "failed", "error"))

trigger_rollback(out) ==
    IF out = "ok" THEN Step(Act("automated_rollback", "success", "rollback_id"))
    ELSE IF out = "error" THEN Step(Act("automated_rollback", "failed", "status_code"))
    ELSE Step(Act("automated_rollback", "failed", "error"))

\* Seeded fault: the confidence is not consulted.
rollback_condition_critical(sev, conf) == sev = "critical"

\* incident.severity.value == "critical" and analysis.confidence > 0.8
rollback_condition(sev, conf) == sev = "critical" /\ conf > 80

ActionsOf(step) == IF step.raised THEN <<>> ELSE <<step.action>>

\* Seeded fault: the notification is built before the ticket step has
\* answered.
jira_story_id_unset(action) == "none"

\* The id taken from the ticket step's result (issue_key or user_story_id),
\* or the synthetic id of the demo branch.
jira_story_id(action) ==
    IF action.status = "success" /\ action.result # "none"
    THEN action.result
    ELSE "AIOBS"

\* cfg: the executor's credentials; inc: the incident's source, severity
\* and whether raw_data names a pull request; conf: analysis.confidence in
\* hundredths; o: the outcome of each external call.  actions is in the
\* order of the awaited steps; notified is the ticket id handed to the
\* chat notification.
execute_actions(cfg, inc, conf, o) ==
    LET jira == create_jira_user_story(o.jira)
        linked == jira.action.status = "success" /\ jira.action.result # "none"
        demo == IF linked THEN <<>>
                ELSE <<Act("jira_user_story", "success", "user_story_id")>>
        gitlike == inc.source \in {"git", "github_pr"}
        gh == IF cfg.github_token /\ gitlike
              THEN post_github_comment(inc.has_pr, o.github)
              ELSE Step(Act("github_comment", "success", "comment_id"))
        ghActs == IF gitlike THEN ActionsOf(gh) ELSE <<>>
        slackTry == send_slack_notification(o.slack)
        slack == IF cfg.slack_webhook
                 THEN IF slackTry.raised
                      THEN Step(Act("slack_notification", "failed", "error"))
                      ELSE slackTry
                 ELSE Step(Act("slack_notification", "success", "jira_story"))
        critical == rollback_condition(inc.severity, conf)
        rb == IF critical THEN trigger_rollback(o.rollback)
              ELSE Step(Act("none", "none", "none"))
        rbActs == IF critical THEN ActionsOf(rb) ELSE <<>>
    IN [raised |-> jira.raised \/ (gitlike /\ gh.raised) \/ slack.raised
                   \/ (critical /\ rb.raised),
        actions |-> <<jira.action>> \o demo \o ghActs \o <<slack.action>> \o rbActs,
        mapped |-> jira.mapped,
        notified |-> jira_story_id(jira.action)]

\* get_issue_key_from_incident_id answers a key on every path (search hit,
\* or the project-key fallback).
get_issue_key_from_incident_id(out) == "key"

sync_jira_status(in_mapping, out) ==
    LET issue_key == IF in_mapping THEN "key" ELSE get_issue_key_from_incident_id(out)
    IN IF issue_key = "" THEN Act("jira_status_sync", "skipped", "none")
       ELSE IF out = "success" THEN Act("jira_status_sync", "completed", "issue_key")
       ELSE Act("jira_status_sync", "failed", "error")

\* ---------------------------------------------------------------- analyzer
\* Confidences are floats in the code; the model keeps them in hundredths.
\* A root cause is a tuple of characters, () for None.
RC_None == <<>>
RC_Analysis == <<"a","i">>
RC_AnalysisFailed ==
    <<"A","n","a","l","y","s","i","s"," ","f","a","i","l","e","d">>
S_Fallback == <<"F","a","l","l","b","a","c","k">>
S_fallback == <<"f","a","l","l","b","a","c","k">>

AIAnalysis(rc, conf) == [raised |-> FALSE, root_cause |-> rc, confidence |-> conf]

\* The substrings _fallback_analysis looks for in the lower-cased
\* description and raw_data; a text is the set of those that occur in it.
FallbackPatterns ==
    {"test_failed", "test failure", "required_field_missing", "element not found",
     "deployment_failed", "deployment failure", "build_failed"}

\* "Fallback analysis: ..." with one tag per branch.
FallbackCause(tag) == S_Fallback \o <<":">> \o tag

fallback_analysis(src, text) ==
    IF src = "copado" THEN
        IF "test_failed" \in text \/ "test failure" \in text THEN
            IF "required_field_missing" \in text THEN AIAnalysis(FallbackCause(<<"t","1">>), 87)
            ELSE IF "element not found" \in text THEN AIAnalysis(FallbackCause(<<"t","2">>), 85)
            ELSE AIAnalysis(FallbackCause(<<"t","3">>), 78)
        ELSE IF "deployment_failed" \in text \/ "deployment failure" \in text
             THEN AIAnalysis(FallbackCause(<<"d">>), 92)
        ELSE IF "build_failed" \in text THEN AIAnalysis(FallbackCause(<<"b">>), 88)
        ELSE AIAnalysis(FallbackCause(<<"c">>), 80)
    ELSE IF src = "git" THEN AIAnalysis(FallbackCause(<<"g">>), 60)
    ELSE IF src = "salesforce" THEN AIAnalysis(FallbackCause(<<"s">>), 78)
    ELSE AIAnalysis(FallbackCause(<<>>), 75)

AiOutcomes == {"ok", "remote_error", "internal_error"}
ConfLevels == {90}

\* Seeded fault: the remote call is made outside the try blocks.
analyze_incident_uncaught(src, text, ai, conf) ==
    IF ai = "ok" THEN AIAnalysis(RC_Analysis, conf)
    ELSE IF ai = "remote_error" THEN Raise
    ELSE fallback_analysis(src, text)

\* AIAnalyzer.analyze_incident: a failure of the remote call, or of any
\* other step inside the try, is answered with the fallback analysis.
analyze_incident(src, text, ai, conf) ==
    IF ai = "ok" THEN AIAnalysis(RC_Analysis, conf)
    ELSE fallback_analysis(src, text)

Min(a, b) == IF a < b THEN a ELSE b

\* min(0.98, (analysis + ml + quantum) / 3 + 0.15)
combined_confidence(a, ml, q) == Min(98, ((a + ml + q) \div 3) + 15)

\* ------------------------------------------------------------------ state
VARIABLES
    pc,                   \* per task: position of its handler / pipeline
    hook,                 \* per task: the webhook payload (endpoint, event_type, data)
    signal,               \* per task: the Signal the detector returned
    resp,                 \* per task: the webhook's HTTP response
    analysis,             \* per task: analysis.confidence held by analyze_and_act
    store,                \* per incident: "none", "main" (main.incidents), "manager"
    source,
    severity,
    status,
    resolved_at,          \* 0 is None, otherwise the clock value written
    root_cause,
    confidence_score,     \* hundredths; -1 is None
    suggested_actions,
    actions_taken,
    incident_jira_mapping,
    reqs,                 \* status-endpoint requests
    clock,                \* datetime.now(): strictly increasing readings
    xin,                  \* input of a direct execute_actions call
    xout,                 \* its result
    mon                   \* the polling monitors and the shutdown handler

taskVars == <<pc, hook, signal, resp, analysis>>
incVars == <<store, source, severity, status, resolved_at, root_cause, confidence_score, suggested_actions, actions_taken>>
execVars == <<xin, xout, mon>>
vars == <<taskVars, incVars, incident_jira_mapping, reqs, clock, execVars>>

IncidentStatus == {"open", "in_progress", "resolved", "closed", "failed"}
IncidentSeverity == {"low", "medium", "high", "critical"}

NoHook == [endpoint |-> "none"]
NoRequest == [pc |-> "idle"]
NoMonitor == [sd |-> "none"]
NoExec == [raised |-> FALSE, none |-> TRUE]

ExecOutcomes ==
    [jira : JiraCreateOutcomes, github : HttpOutcomes, slack : HttpOutcomes, rollback : HttpOutcomes]

\* The outcome vectors the pipeline of the running server is driven with.
PipelineOutcomes ==
    { [jira |-> "created", github |-> "ok", slack |-> "ok", rollback |-> "ok"],
      [jira |-> "ctor_error", github |-> "error", slack |-> "exception", rollback |-> "ok"] }

\* The credentials of the running server.  main.py imports
\* services.incident_manager, whose module body constructs IncidentManager()
\* and raises without GITHUB_TOKEN, so the token is always there.
env == [github_token |-> TRUE, slack_webhook |-> TRUE]

InitState ==
    /\ pc = [t \in Tasks |-> "idle"]
    /\ hook = [t \in Tasks |-> NoHook]
    /\ signal = [t \in Tasks |-> NoSignal]
    /\ resp = [t \in Tasks |-> "none"]
    /\ analysis = [t \in Tasks |-> 0]
    /\ store = [t \in Tasks |-> "none"]
    /\ source = [t \in Tasks |-> "none"]
    /\ severity = [t \in Tasks |-> "none"]
    /\ status = [t \in Tasks |-> "none"]
    /\ resolved_at = [t \in Tasks |-> 0]
    /\ root_cause = [t \in Tasks |-> RC_None]
    /\ confidence_score = [t \in Tasks |-> -1]
    /\ suggested_actions = [t \in Tasks |-> <<>>]
    /\ actions_taken = [t \in Tasks |-> <<>>]
    /\ incident_jira_mapping = {}
    /\ reqs = [r \in Requests |-> NoRequest]
    /\ clock = 0

Init ==
    /\ InitState
    /\ xin = NoExec
    /\ xout = NoExec
    /\ mon = NoMonitor

\* ------------------------------------------------------------- event loop
\* Coroutines run on one loop: a step is the code between two awaits that
\* suspend.  create_incident_from_signal and the head of analyze_and_act
\* run without suspending, so a task that has just created its incident
\* holds the loop until analyze_and_act reaches its first sleep.
\* Seeded fault: creation yields to the loop before analyze_and_act starts.
HoldsNever(u) == FALSE

Holds(u) == pc[u] = "created"
Free(t) == \A u \in Tasks \ {t} : ~Holds(u)
FreeAll == \A u \in Tasks : ~Holds(u)

\* Incident ids are handed out in arrival order.
InOrder(t) == \A u \in Tasks : u < t => pc[u] # "idle"

Arrived ==
    Cardinality({t \in Tasks : pc[t] # "idle"})
        + Cardinality({r \in Requests : reqs[r].pc # "idle"})

\* The locals of a coroutine that has returned are gone.
Return(t) ==
    /\ hook' = [hook EXCEPT ![t] = NoHook]
    /\ signal' = [signal EXCEPT ![t] = NoSignal]
    /\ analysis' = [analysis EXCEPT ![t] = 0]

\* ---------------------------------------------------------------- webhooks
\* The github and copado handlers await process_*_event; the salesforce and
\* git handlers queue it as a background task and answer at once.
SyncEndpoints == {"github", "copado"}

\* Seeded fault: the handlers do not look at the event type.
AllowedAny(ep, ev) == TRUE

Allowed(ep, ev) ==
    CASE ep = "github" -> ev \in {"push", "pull_request"}
      [] ep = "copado" -> ev \in {"deployment_failed", "test_failed", "build_failed"}
      [] ep = "git" -> ev \in {"push", "pull_request", "hotfix_commit"}
      [] ep = "salesforce" -> TRUE

\* Seeded fault: the except branch of process_*_event re-raises.
process_event_propagates == TRUE

\* `except Exception` of process_git_event / process_copado_event /
\* process_salesforce_event: nothing is re-raised to the handler.
process_event_reraises == FALSE

\* `except Exception` of analyze_and_act.
analyze_and_act_reraises == FALSE

\* What the framework answers when the handler returns or raises.
HandlerResponse(raised) == IF raised THEN "error_500" ELSE "received"

\* The response of task t once process_*_event has ended: an awaiting
\* handler answers now, a queueing one has answered already.
Answer(t, ep, raised) ==
    IF ep \in SyncEndpoints
    THEN [resp EXCEPT ![t] = HandlerResponse(raised)]
    ELSE resp

SourceOf(ep) == IF ep \in {"github", "git"} THEN "git" ELSE ep

analyze_event(ep, ev, data) ==
    CASE ep \in {"github", "git"} -> analyze_git_event(ev, data)
      [] ep = "copado" -> analyze_copado_event(ev, data)
      [] ep = "salesforce" -> analyze_salesforce_event(ev, data)

\* Seeded fault: the anomaly flag is not consulted.
ShouldCreateAlways(sig) == TRUE

\* `if signal.is_anomaly:` of process_*_event.
ShouldCreate(sig) == sig.is_anomaly

\* Seeded fault: the cutoff is inclusive.
SeverityOfInclusive(sev) == IF sev >= 7 THEN "high" ELSE "medium"

\* IncidentSeverity.HIGH if signal.severity > 0.7 else IncidentSeverity.MEDIUM
SeverityOf(sev) == IF sev > 7 THEN "high" ELSE "medium"

\* The Incident built from the Signal and stored in main.incidents.
create_incident_from_signal(t, w, sig) ==
    /\ store' = [store EXCEPT ![t] = "main"]
    /\ source' = [source EXCEPT ![t] = SourceOf(w.endpoint)]
    /\ severity' = [severity EXCEPT ![t] = SeverityOf(sig.severity)]
    /\ status' = [status EXCEPT ![t] = "open"]
    /\ UNCHANGED <<resolved_at, root_cause, confidence_score, suggested_actions, actions_taken>>

\* process_*_event from the detector to the stored incident.  The detector
\* or the timestamp scan of create_incident_from_signal may raise: the
\* except branch logs and returns.
process_event(t, w) ==
    LET sig == analyze_event(w.endpoint, w.event_type, w.data)
    IN IF sig.raised
       THEN /\ pc' = [pc EXCEPT ![t] = "error"]
            /\ resp' = Answer(t, w.endpoint, process_event_reraises)
            /\ Return(t)
            /\ UNCHANGED incVars
       ELSE IF ~ShouldCreate(sig)
       THEN /\ pc' = [pc EXCEPT ![t] = "no_anomaly"]
            /\ resp' = Answer(t, w.endpoint, FALSE)
            /\ Return(t)
            /\ UNCHANGED incVars
       ELSE IF BadNested(w.data)
       THEN /\ pc' = [pc EXCEPT ![t] = "error"]
            /\ resp' = Answer(t, w.endpoint, process_event_reraises)
            /\ Return(t)
            /\ UNCHANGED incVars
       ELSE /\ pc' = [pc EXCEPT ![t] = "created"]
            /\ hook' = [hook EXCEPT ![t] = w]
            /\ signal' = [signal EXCEPT ![t] = sig]
            /\ create_incident_from_signal(t, w, sig)
            /\ UNCHANGED <<resp, analysis>>

\* A handler that awaits process_*_event.
Awaited(t, w) ==
    /\ pc[t] = "idle"
    /\ InOrder(t)
    /\ Arrived < MaxEvents
    /\ FreeAll
    /\ IF Allowed(w.endpoint, w.event_type)
       THEN process_event(t, w)
       ELSE /\ pc' = [pc EXCEPT ![t] = "dropped"]
            /\ resp' = [resp EXCEPT ![t] = HandlerResponse(FALSE)]
            /\ UNCHANGED <<hook, signal, analysis, incVars>>
    /\ UNCHANGED <<incident_jira_mapping, reqs, clock, execVars>>

\* A handler that queues process_*_event with BackgroundTasks.
Queued(t, w) ==
    /\ pc[t] = "idle"
    /\ InOrder(t)
    /\ Arrived < MaxEvents
    /\ FreeAll
    /\ resp' = [resp EXCEPT ![t] = HandlerResponse(FALSE)]
    /\ IF Allowed(w.endpoint, w.event_type)
       THEN /\ pc' = [pc EXCEPT ![t] = "queued"]
            /\ hook' = [hook EXCEPT ![t] = w]
       ELSE /\ pc' = [pc EXCEPT ![t] = "dropped"]
            /\ UNCHANGED hook
    /\ UNCHANGED <<signal, analysis, incVars, incident_jira_mapping, reqs, clock, execVars>>

github_webhook(t, w) == w.endpoint = "github" /\ Awaited(t, w)
copado_webhook(t, w) == w.endpoint = "copado" /\ Awaited(t, w)
salesforce_webhook(t, w) == w.endpoint = "salesforce" /\ Queued(t, w)
git_webhook(t, w) == w.endpoint = "git" /\ Queued(t, w)

\* The queued process_*_event runs after the response has gone out.
BackgroundRun(t) ==
    /\ pc[t] = "queued"
    /\ Free(t)
    /\ process_event(t, hook[t])
    /\ UNCHANGED <<incident_jira_mapping, reqs, clock, execVars>>

SyncResult(t, out) == sync_jira_status(t \in incident_jira_mapping, out)

\* analyze_and_act up to its first suspension (asyncio.sleep).
AnalyzeStart(t) ==
    /\ pc[t] = "created"
    /\ Free(t)
    /\ status' = [status EXCEPT ![t] = "in_progress"]
    /\ pc' = [pc EXCEPT ![t] = "analyzing"]
    /\ t \in incident_jira_mapping =>
         \E out \in SyncOutcomes : SyncResult(t, out).action_type = "jira_status_sync"
    /\ UNCHANGED <<hook, signal, resp, analysis, store, source, severity, resolved_at,
                   root_cause, confidence_score, suggested_actions, actions_taken, incident_jira_mapping, reqs, clock, execVars>>

\* Seeded fault: the except branch records the failure and leaves the status.
FailKeepsStatus(t) ==
    /\ root_cause' = [root_cause EXCEPT ![t] = RC_AnalysisFailed]
    /\ confidence_score' = [confidence_score EXCEPT ![t] = 0]
    /\ pc' = [pc EXCEPT ![t] = "failed"]
    /\ resp' = Answer(t, hook[t].endpoint, FALSE)
    /\ Return(t)
    /\ UNCHANGED <<status, suggested_actions>>

\* Seeded fault: the except branch leaves confidence_score as it was.
FailKeepsConfidence(t) ==
    /\ root_cause' = [root_cause EXCEPT ![t] = RC_AnalysisFailed]
    /\ status' = [status EXCEPT ![t] = "failed"]
    /\ pc' = [pc EXCEPT ![t] = "failed"]
    /\ resp' = Answer(t, hook[t].endpoint, FALSE)
    /\ Return(t)
    /\ UNCHANGED <<confidence_score, suggested_actions>>

\* The except branch of analyze_and_act.
Fail(t) ==
    /\ root_cause' = [root_cause EXCEPT ![t] = RC_AnalysisFailed]
    /\ confidence_score' = [confidence_score EXCEPT ![t] = 0]
    /\ status' = [status EXCEPT ![t] = "failed"]
    /\ pc' = [pc EXCEPT ![t] = "failed"]
    /\ resp' = Answer(t, hook[t].endpoint, analyze_and_act_reraises /\ process_event_reraises)
    /\ Return(t)
    /\ UNCHANGED suggested_actions

\* The patterns of FallbackPatterns that occur in the incident's
\* description and raw_data.
IncidentText(w) == IF "text" \in DOMAIN w.data THEN w.data.text ELSE {}

\* list(dict.fromkeys(all_actions))[:5]: the first occurrence of each
\* action, in order, cut to five.
suggested_top5(all) ==
    LET first == SelectSeq([k \in 1..Len(all) |-> k],
                           LAMBDA k : \A j \in 1..(k - 1) : all[j] # all[k])
        d == [i \in 1..Len(first) |-> all[first[i]]]
    IN SubSeq(d, 1, Min(5, Len(d)))

EngineOutcomes == {"ok", "raise"}
EngineConfLevels == {50}

\* asyncio.gather of the four engines returns (ai: what happened inside
\* analyze_incident; conf: the confidence of a remote analysis) or one of
\* the engines raises (eng); the results are merged into the incident.
AnalyzeWith(t, ai, eng, conf) ==
    /\ pc[t] = "analyzing"
    /\ Free(t)
    /\ IF eng = "raise"
       THEN Fail(t)
       ELSE LET a == analyze_incident(source[t], IncidentText(hook[t]), ai, conf)
            IN \E ml \in EngineConfLevels, q \in EngineConfLevels :
                /\ root_cause' = [root_cause EXCEPT ![t] = a.root_cause]
                /\ confidence_score' =
                      [confidence_score EXCEPT ![t] = combined_confidence(a.confidence, ml, q)]
                /\ suggested_actions' =
                      [suggested_actions EXCEPT ![t] =
                          suggested_top5(<<"review", "monitor", "review", "optimize",
                                           "rollback", "retest", "escalate">>)]
                /\ analysis' = [analysis EXCEPT ![t] = a.confidence]
                /\ pc' = [pc EXCEPT ![t] = "executing"]
                /\ UNCHANGED <<status, resp, hook, signal>>
    /\ UNCHANGED <<store, source, severity, resolved_at, actions_taken,
                   incident_jira_mapping, reqs, clock, execVars>>

Analyze(t) ==
    \E ai \in AiOutcomes, eng \in EngineOutcomes, conf \in ConfLevels :
        AnalyzeWith(t, ai, eng, conf)

\* The same step when the remote AI call answers.  The fallback differs
\* from a remote analysis in root_cause and confidence only, which no
\* later step reads on the webhook path.
AnalyzeRemote(t) ==
    \E eng \in EngineOutcomes, conf \in ConfLevels : AnalyzeWith(t, "ok", eng, conf)

IncidentView(t) ==
    [source |-> source[t], severity |-> severity[t], has_pr |-> HasPR(hook[t].data)]

\* execute_actions returns and its list is appended.
ExecDone(t) ==
    /\ pc[t] = "executing"
    /\ Free(t)
    /\ \E o \in PipelineOutcomes :
         LET r == execute_actions(env, IncidentView(t), analysis[t], o)
         IN /\ incident_jira_mapping' =
                  IF r.mapped THEN incident_jira_mapping \cup {t} ELSE incident_jira_mapping
            /\ IF r.raised
               THEN Fail(t) /\ UNCHANGED actions_taken
               ELSE /\ actions_taken' = [actions_taken EXCEPT ![t] = @ \o r.actions]
                    /\ pc' = [pc EXCEPT ![t] = "sleep2"]
                    /\ UNCHANGED <<status, root_cause, confidence_score, suggested_actions, resp, hook, signal, analysis>>
    /\ UNCHANGED <<store, source, severity, resolved_at,
                   reqs, clock, execVars>>

\* Seeded fault: the final transition is made only from in_progress.
ResolveIfInProgress(t) ==
    /\ pc[t] = "sleep2"
    /\ Free(t)
    /\ IF status[t] = "in_progress"
       THEN /\ status' = [status EXCEPT ![t] = "resolved"]
            /\ clock' = clock + 1
            /\ resolved_at' = [resolved_at EXCEPT ![t] = clock + 1]
       ELSE UNCHANGED <<status, clock, resolved_at>>
    /\ pc' = [pc EXCEPT ![t] = "syncing"]
    /\ UNCHANGED <<hook, signal, resp, analysis, store, source, severity, root_cause, confidence_score, suggested_actions,
                   actions_taken, incident_jira_mapping, reqs, execVars>>

\* After the second sleep: RESOLVED and resolved_at, then the sync is awaited.
Resolve(t) ==
    /\ pc[t] = "sleep2"
    /\ Free(t)
    /\ status' = [status EXCEPT ![t] = "resolved"]
    /\ clock' = clock + 1
    /\ resolved_at' = [resolved_at EXCEPT ![t] = clock + 1]
    /\ pc' = [pc EXCEPT ![t] = "syncing"]
    /\ UNCHANGED <<hook, signal, resp, analysis, store, source, severity, root_cause, confidence_score, suggested_actions,
                   actions_taken, incident_jira_mapping, reqs, execVars>>

HasIssueKey(acts) ==
    \E k \in 1..Len(acts) :
        acts[k].action_type = "jira_user_story" /\ acts[k].result = "issue_key"

\* The sync returns (or raises, which is logged); the mapping is stored and
\* analyze_and_act ends.
SyncDone(t) ==
    /\ pc[t] = "syncing"
    /\ Free(t)
    /\ \E out \in SyncOutcomes : SyncResult(t, out).action_type = "jira_status_sync"
    /\ incident_jira_mapping' =
         IF HasIssueKey(actions_taken[t]) THEN incident_jira_mapping \cup {t}
         ELSE incident_jira_mapping
    /\ pc' = [pc EXCEPT ![t] = "done"]
    /\ resp' = Answer(t, hook[t].endpoint, FALSE)
    /\ Return(t)
    /\ UNCHANGED <<incVars, reqs, clock, execVars>>

\* -------------------------------------------------------- status endpoint
StatusInputs == {"open", "closed", "RESOLVED", "bogus"}

\* new_status.lower()
StatusLower(x) == IF x = "RESOLVED" THEN "resolved" ELSE x

\* Seeded fault: the lookup does not miss.
InStoreAlways(id) == TRUE

\* `incident_id in incidents` of main.py.
InStore(id) == store[id] = "main"

\* Seeded fault: the status string is not validated.
ValidStatusAny(new_status) == TRUE

\* IncidentStatus(new_status.lower()) does not raise ValueError.
ValidStatus(new_status) == StatusLower(new_status) \in IncidentStatus

\* update_incident_status up to `await sync_jira_status`.  old_status is
\* read a second time after the status has been written.
update_incident_status(r, id, new_status) ==
    /\ reqs[r].pc = "idle"
    /\ \A q \in Requests : q < r => reqs[q].pc # "idle"
    /\ Arrived < MaxEvents
    /\ FreeAll
    /\ IF ~InStore(id)
       THEN /\ reqs' = [reqs EXCEPT ![r] = [pc |-> "responded", id |-> id, code |-> 404]]
            /\ UNCHANGED <<status, resolved_at, clock>>
       ELSE IF ~ValidStatus(new_status)
       THEN /\ reqs' = [reqs EXCEPT ![r] = [pc |-> "responded", id |-> id, code |-> 400]]
            /\ UNCHANGED <<status, resolved_at, clock>>
       ELSE LET status_enum == StatusLower(new_status)
                first_old == status[id]
                old_status == status_enum
            IN /\ status' = [status EXCEPT ![id] = status_enum]
               /\ IF status_enum = "resolved"
                  THEN /\ clock' = clock + 1
                       /\ resolved_at' = [resolved_at EXCEPT ![id] = clock + 1]
                  ELSE UNCHANGED <<resolved_at, clock>>
               /\ reqs' = [reqs EXCEPT ![r] = [pc |-> "syncing", id |-> id,
                                                new_status |-> status_enum,
                                                old_status |-> old_status]]
    /\ UNCHANGED <<taskVars, store, source, severity, root_cause, confidence_score, suggested_actions, actions_taken,
                   incident_jira_mapping, execVars>>

\* POST /resolve/{id}
resolve_incident(r, id) == update_incident_status(r, id, "resolved")

\* Seeded fault: a failed sync is answered with an error.
ResponseCodeOfSync(a) == IF a.status = "failed" THEN 500 ELSE 200

\* The handler logs the sync's ActionTaken and returns the same body
\* whatever it is.
ResponseCode(a) == 200

\* The sync returns, or raises and is logged; its ActionTaken is only
\* logged.  The handler answers 200.
StatusRespond(r) ==
    /\ reqs[r].pc = "syncing"
    /\ FreeAll
    /\ \E out \in SyncOutcomes :
         LET a == SyncResult(reqs[r].id, out)
         IN reqs' = [reqs EXCEPT ![r] = [pc |-> "responded", id |-> reqs[r].id,
                                          new_status |-> reqs[r].new_status,
                                          old_status |-> reqs[r].old_status,
                                          code |-> ResponseCode(a)]]
    /\ UNCHANGED <<taskVars, incVars, incident_jira_mapping, clock, execVars>>

\* ------------------------------------------------------- PR-monitor path
\* Entries IncidentManager and GitHubMonitor append are plain dicts with a
\* `success` flag and no `status` key.
DictAct(type, res) == [action_type |-> type, status |-> "absent", result |-> res]

\* Seeded fault: the list is rebuilt from the new entry.
Replace1(acts, a) == <<a>>

Append1(acts, a) == Append(acts, a)

PRSeverities == {"high"}

\* process_new_pr -> GitHubMonitor.create_incident ->
\* IncidentManager.create_incident, up to the await of get_pr_status in
\* handle_github_pr_incident.  The Incident is built with the default OPEN.
PRCreate(t, sev) ==
    /\ pc[t] = "idle"
    /\ InOrder(t)
    /\ Arrived < MaxEvents
    /\ FreeAll
    /\ hook' = [hook EXCEPT ![t] = [endpoint |-> "pr_monitor"]]
    /\ store' = [store EXCEPT ![t] = "manager"]
    /\ source' = [source EXCEPT ![t] = "github_pr"]
    /\ severity' = [severity EXCEPT ![t] = sev]
    /\ status' = [status EXCEPT ![t] = "open"]
    /\ pc' = [pc EXCEPT ![t] = "pr_status"]
    /\ UNCHANGED <<signal, resp, analysis, resolved_at, root_cause, confidence_score, suggested_actions, actions_taken,
                   incident_jira_mapping, reqs, clock, execVars>>

\* get_pr_status returns; add_detailed_pr_comment (PR open) or
\* create_fix_pr (PR merged; it calls the undefined generate_fixed_code and
\* its except logs the AttributeError).
PRComment(t) ==
    /\ pc[t] = "pr_status"
    /\ Free(t)
    /\ \E state \in {"open", "merged", "unknown"}, out \in {"labelled", "ok", "error", "exception"} :
         actions_taken' =
            IF state = "open" /\ out = "ok"
            THEN [actions_taken EXCEPT ![t] = Append1(@, DictAct("pr_comment", "none"))]
            ELSE actions_taken
    /\ pc' = [pc EXCEPT ![t] = "pr_notify"]
    /\ UNCHANGED <<hook, signal, resp, analysis, store, source, severity, status,
                   resolved_at, root_cause, confidence_score, suggested_actions, incident_jira_mapping, reqs, clock, execVars>>

\* create_notifications: the entry is appended whether or not a webhook is
\* configured; _send_real_slack_notification swallows its own errors.
PRNotify(t) ==
    /\ pc[t] = "pr_notify"
    /\ Free(t)
    /\ actions_taken' = [actions_taken EXCEPT ![t] = Append1(@, DictAct("slack_notification", "none"))]
    /\ pc' = [pc EXCEPT ![t] = "pr_jira"]
    /\ UNCHANGED <<hook, signal, resp, analysis, store, source, severity, status,
                   resolved_at, root_cause, confidence_score, suggested_actions, incident_jira_mapping, reqs, clock, execVars>>

\* IncidentManager.create_jira_user_story.
PRJira(t) ==
    /\ pc[t] = "pr_jira"
    /\ Free(t)
    /\ \E out \in {"created", "ctor_error"} :
         LET result == create_user_story(out)
         IN IF ~result.raised /\ result.success
            THEN /\ incident_jira_mapping' = incident_jira_mapping \cup {t}
                 /\ actions_taken' = [actions_taken EXCEPT ![t] =
                                         Append1(@, DictAct("jira_user_story", "issue_key"))]
            ELSE /\ UNCHANGED incident_jira_mapping
                 /\ actions_taken' = [actions_taken EXCEPT ![t] =
                                         Append1(@, DictAct("jira_user_story", "story_id"))]
    /\ pc' = [pc EXCEPT ![t] = "pr_resolve"]
    /\ UNCHANGED <<hook, signal, resp, analysis, store, source, severity, status,
                   resolved_at, root_cause, confidence_score, suggested_actions, reqs, clock, execVars>>

\* sync_jira_status_if_exists: the executor's sync is called only when the
\* incident is in the mapping.
SyncIfExists(t) ==
    t \in incident_jira_mapping =>
        \E out \in SyncOutcomes : SyncResult(t, out).action_type = "jira_status_sync"

\* resolve_incident_with_jira_sync, first half: any status other than
\* in_progress is moved to in_progress before the sync is awaited.
PRInProgress(t) ==
    /\ pc[t] = "pr_resolve"
    /\ Free(t)
    /\ IF status[t] # "in_progress"
       THEN /\ status' = [status EXCEPT ![t] = "in_progress"]
            /\ SyncIfExists(t)
       ELSE UNCHANGED status
    /\ pc' = [pc EXCEPT ![t] = "pr_sleep"]
    /\ UNCHANGED <<hook, signal, resp, analysis, store, source, severity, resolved_at,
                   root_cause, confidence_score, suggested_actions, actions_taken, incident_jira_mapping, reqs, clock, execVars>>

\* resolve_incident_with_jira_sync, second half.
PRResolve(t) ==
    /\ pc[t] = "pr_sleep"
    /\ Free(t)
    /\ status' = [status EXCEPT ![t] = "resolved"]
    /\ clock' = clock + 1
    /\ resolved_at' = [resolved_at EXCEPT ![t] = clock + 1]
    /\ SyncIfExists(t)
    /\ pc' = [pc EXCEPT ![t] = "pr_comment"]
    /\ UNCHANGED <<hook, signal, resp, analysis, store, source, severity, root_cause, confidence_score, suggested_actions,
                   actions_taken, incident_jira_mapping, reqs, execVars>>

\* Back in process_new_pr: create_pr_comment appends to current_incident
\* when the comment is posted.
PRMonitorComment(t) ==
    /\ pc[t] = "pr_comment"
    /\ Free(t)
    /\ \E out \in {"ok", "error"} :
         actions_taken' =
            IF out = "ok"
            THEN [actions_taken EXCEPT ![t] = Append1(@, DictAct("pr_comment", "none"))]
            ELSE actions_taken
    /\ pc' = [pc EXCEPT ![t] = "done"]
    /\ Return(t)
    /\ UNCHANGED <<resp, store, source, severity, status,
                   resolved_at, root_cause, confidence_score, suggested_actions, incident_jira_mapping, reqs, clock, execVars>>

\* ------------------------------------------------------------------- spec
Next ==
    \/ \E t \in Tasks, w \in WebhookInputs : github_webhook(t, w)
    \/ \E t \in Tasks, w \in WebhookInputs : copado_webhook(t, w)
    \/ \E t \in Tasks, w \in WebhookInputs : salesforce_webhook(t, w)
    \/ \E t \in Tasks, w \in WebhookInputs : git_webhook(t, w)
    \/ \E t \in Tasks : BackgroundRun(t)
    \/ \E t \in Tasks : AnalyzeStart(t)
    \/ \E t \in Tasks : AnalyzeRemote(t)
    \/ \E t \in Tasks : ExecDone(t)
    \/ \E t \in Tasks : Resolve(t)
    \/ \E t \in Tasks : SyncDone(t)
    \/ \E r \in Requests, id \in Tasks, ns \in StatusInputs : update_incident_status(r, id, ns)
    \/ \E r \in Requests, id \in Tasks : resolve_incident(r, id)
    \/ \E r \in Requests : StatusRespond(r)
    \/ \E t \in Tasks, sev \in PRSeverities : PRCreate(t, sev)
    \/ \E t \in Tasks : PRComment(t)
    \/ \E t \in Tasks : PRNotify(t)
    \/ \E t \in Tasks : PRJira(t)
    \/ \E t \in Tasks : PRInProgress(t)
    \/ \E t \in Tasks : PRResolve(t)
    \/ \E t \in Tasks : PRMonitorComment(t)

Spec == Init /\ [][Next]_vars

\* The loop runs every coroutine that is ready, and every external call
\* returns or fails: each enabled step of analyze_and_act is taken.
PipelineFairness ==
    \A t \in Tasks :
        /\ WF_vars(AnalyzeStart(t))
        /\ WF_vars(Analyze(t))
        /\ WF_vars(ExecDone(t))
        /\ WF_vars(Resolve(t))
        /\ WF_vars(SyncDone(t))

\* ------------------------------------------- the executor called directly
\* execute_actions and sync_jira_status as functions of the executor's
\* credentials, the incident and the outcome of each external call.
ExecInputs ==
    [kind : {"execute_actions"},
     cfg : [github_token : BOOLEAN, slack_webhook : BOOLEAN],
     inc : [source : {"git", "copado"}, severity : {"high", "critical"}, has_pr : BOOLEAN],
     conf : {80, 90},
     o : ExecOutcomes]
    \cup [kind : {"sync_jira_status"}, in_mapping : BOOLEAN, out : SyncOutcomes]

InitExec ==
    /\ InitState
    /\ xin \in ExecInputs
    /\ xout = NoExec
    /\ mon = NoMonitor

ExecuteActions ==
    /\ xin.kind = "execute_actions"
    /\ xout = NoExec
    /\ xout' = execute_actions(xin.cfg, xin.inc, xin.conf, xin.o)
    /\ UNCHANGED <<taskVars, incVars, incident_jira_mapping, reqs, clock, xin, mon>>

SyncJiraStatus ==
    /\ xin.kind = "sync_jira_status"
    /\ xout = NoExec
    /\ xout' = [raised |-> FALSE,
                actions |-> <<sync_jira_status(xin.in_mapping, xin.out)>>,
                mapped |-> xin.in_mapping]
    /\ UNCHANGED <<taskVars, incVars, incident_jira_mapping, reqs, clock, xin, mon>>

NextExec == ExecuteActions \/ SyncJiraStatus

SpecExec == InitExec /\ [][NextExec]_vars

\* The Copado webhook with its pipeline, and the manual status requests.
NextCopado ==
    \/ \E t \in Tasks, w \in WebhookInputs : copado_webhook(t, w)
    \/ \E t \in Tasks : AnalyzeStart(t)
    \/ \E t \in Tasks : Analyze(t)
    \/ \E t \in Tasks : ExecDone(t)
    \/ \E t \in Tasks : Resolve(t)
    \/ \E t \in Tasks : SyncDone(t)
    \/ \E r \in Requests, id \in Tasks, ns \in StatusInputs : update_incident_status(r, id, ns)
    \/ \E r \in Requests, id \in Tasks : resolve_incident(r, id)
    \/ \E r \in Requests : StatusRespond(r)

FairSpec == Init /\ [][NextCopado]_vars /\ PipelineFairness

\* --------------------------------------------- the analyzer called directly
AnalyzerInputs ==
    [kind : {"analyze_incident"},
     source : {"copado", "git", "salesforce", "github_pr"},
     text : SUBSET FallbackPatterns,
     ai : AiOutcomes,
     conf : ConfLevels]

InitAnalyzer ==
    /\ InitState
    /\ xin \in AnalyzerInputs
    /\ xout = NoExec
    /\ mon = NoMonitor

AnalyzeIncident ==
    /\ xin.kind = "analyze_incident"
    /\ xout = NoExec
    /\ xout' = analyze_incident(xin.source, xin.text, xin.ai, xin.conf)
    /\ UNCHANGED <<taskVars, incVars, incident_jira_mapping, reqs, clock, xin, mon>>

NextAnalyzer == AnalyzeIncident

SpecAnalyzer == InitAnalyzer /\ [][NextAnalyzer]_vars

\* ------------------------------------------- the ticket status transition
\* JiraUserStoryCreator.update_issue_status as a function of the incident
\* status and of what the tracker answers.  A transition is identified by
\* the name of the state it leads to.
J_Done == <<"D","o","n","e">>
J_InProgress == <<"I","n"," ","P","r","o","g","r","e","s","s">>
J_ToDo == <<"T","o"," ","D","o">>

status_mapping(incident_status) ==
    CASE incident_status = "open" -> J_ToDo
      [] incident_status = "in_progress" -> J_InProgress
      [] incident_status \in {"resolved", "closed"} -> J_Done
      [] OTHER -> J_ToDo

\* The index of the first transition of ts, in list order, that passes the
\* test of the loop (hit[k] for the k-th); 0 when there is none.
FirstMatch(ts, hit) ==
    IF \E k \in 1..Len(ts) : hit[k]
    THEN CHOOSE k \in 1..Len(ts) : hit[k] /\ \A j \in 1..(k - 1) : ~hit[j]
    ELSE 0

Call(op, to) == [op |-> op, to |-> to]

\* Seeded fault: the first hop is not requested before the re-read.
update_issue_status_onehop(auth, incident_status, x) ==
    IF ~auth THEN [success |-> TRUE, calls |-> <<>>]
    ELSE IF x.get1 # "ok"
    THEN [success |-> FALSE, calls |-> <<Call("get_transitions", <<>>)>>]
    ELSE
      LET target == status_mapping(incident_status)
          IsDone(n) == Contains(LowerStr(n), <<"d","o","n","e">>)
          exact == FirstMatch(x.tr1, [k \in 1..Len(x.tr1) |-> x.tr1[k] = target])
          two == exact = 0 /\ target = J_Done /\ x.cur = J_ToDo
          done2 == IF two /\ x.get2 = "ok" THEN FirstMatch(x.tr2, [k \in 1..Len(x.tr2) |-> IsDone(x.tr2[k])]) ELSE 0
          final == IF exact # 0 THEN x.tr1[exact]
                   ELSE IF done2 # 0 THEN x.tr2[done2] ELSE <<>>
      IN [success |-> final # <<>> /\ x.post = "204",
          calls |-> <<Call("get_transitions", <<>>)>>
                    \o (IF final # <<>> THEN <<Call("post", final)>> ELSE <<>>)]

\* x.cur is () when the read of the issue is not answered 200.  The
\* answer to the first hop (x.hop) is not looked at.
update_issue_status(auth, incident_status, x) ==
    IF ~auth THEN [success |-> TRUE, calls |-> <<>>]
    ELSE IF x.get1 # "ok"
    THEN [success |-> FALSE, calls |-> <<Call("get_transitions", <<>>)>>]
    ELSE
      LET target == status_mapping(incident_status)
          IsProgress(n) == Contains(LowerStr(n), <<"p","r","o","g","r","e","s","s">>)
          IsDone(n) == Contains(LowerStr(n), <<"d","o","n","e">>)
          LikeProgress(n) ==
              \/ IsProgress(n)
              \/ Contains(LowerStr(n), <<"d","o","i","n","g">>)
              \/ Contains(LowerStr(n), <<"d","e","v","e","l","o","p","m","e","n","t">>)
          LikeDone(n) ==
              \/ IsDone(n)
              \/ Contains(LowerStr(n), <<"c","o","m","p","l","e","t","e">>)
              \/ Contains(LowerStr(n), <<"r","e","s","o","l","v","e","d">>)
              \/ Contains(LowerStr(n), <<"c","l","o","s","e","d">>)
          exact == FirstMatch(x.tr1, [k \in 1..Len(x.tr1) |-> x.tr1[k] = target])
          \* the two-hop branch: the issue is read, and from To Do the first
          \* transition into a state named like progress is requested
          readIssue == exact = 0 /\ target = J_Done
          prog == IF readIssue /\ x.cur = J_ToDo THEN FirstMatch(x.tr1, [k \in 1..Len(x.tr1) |-> IsProgress(x.tr1[k])]) ELSE 0
          done2 == IF prog # 0 /\ x.get2 = "ok" THEN FirstMatch(x.tr2, [k \in 1..Len(x.tr2) |-> IsDone(x.tr2[k])]) ELSE 0
          found == exact # 0 \/ done2 # 0
          variant ==
              IF found THEN 0
              ELSE IF target = J_InProgress THEN FirstMatch(x.tr1, [k \in 1..Len(x.tr1) |-> LikeProgress(x.tr1[k])])
              ELSE IF target = J_Done THEN FirstMatch(x.tr1, [k \in 1..Len(x.tr1) |-> LikeDone(x.tr1[k])])
              ELSE 0
          final == IF exact # 0 THEN x.tr1[exact]
                   ELSE IF done2 # 0 THEN x.tr2[done2]
                   ELSE IF variant # 0 THEN x.tr1[variant]
                   ELSE <<>>
      IN [success |-> final # <<>> /\ x.post = "204",
          calls |-> <<Call("get_transitions", <<>>)>>
                    \o (IF readIssue THEN <<Call("get_issue", <<>>)>> ELSE <<>>)
                    \o (IF prog # 0
                        THEN <<Call("post", x.tr1[prog]), Call("get_transitions", <<>>)>>
                        ELSE <<>>)
                    \o (IF final # <<>> THEN <<Call("post", final)>> ELSE <<>>)]

\* What the tracker answers: the transitions offered at first (tr1), the
\* issue's current state, the answer to the first hop, the transitions
\* offered after it (tr2), and the answer to the final request.
JiraInputs ==
    LET Names == {J_Done, J_InProgress, J_ToDo,
                  <<"D","O","N","E">>, <<"C","o","m","p","l","e","t","e">>}
        Lists == {<<>>} \cup {<<n>> : n \in Names} \cup {<<n, m>> : n \in Names, m \in Names}
    IN [kind : {"update_issue_status"},
        auth : BOOLEAN,
        incident_status : {"open", "in_progress", "resolved"},
        x : [get1 : {"ok", "error"},
             tr1 : Lists,
             cur : {J_ToDo, J_InProgress, <<>>},
             hop : {"204", "400"},
             get2 : {"ok", "error"},
             tr2 : {<<>>} \cup {<<n>> : n \in Names},
             post : {"204", "400", "exception"}]]

InitJira ==
    /\ InitState
    /\ xin \in JiraInputs
    /\ xout = NoExec
    /\ mon = NoMonitor

UpdateIssueStatus ==
    /\ xin.kind = "update_issue_status"
    /\ xout = NoExec
    /\ xout' = update_issue_status(xin.auth, xin.incident_status, xin.x)
    /\ UNCHANGED <<taskVars, incVars, incident_jira_mapping, reqs, clock, xin, mon>>

SpecJira == InitJira /\ [][UpdateIssueStatus]_vars

\* ------------------------------------------------- the polling monitors
\* GitHubIssueMonitor.start_monitoring and GitHubMonitor.monitor_loop as
\* tasks on the event loop, and the shutdown half of lifespan.  A step of a
\* task is the code between two awaits; pc names the await it is suspended
\* at.  task.cancel() sets cancel: the await the task is suspended at then
\* raises CancelledError instead of returning.
MaxCalls == 2
max_retries == 3
retry_delay == 2

\* Issue and pull-request numbers, and the lists a poll can answer.
Numbers == {1, 2}
Listings == {<<>>, <<1>>, <<2>>, <<1, 2>>, <<2, 1>>, <<1, 1>>}

InitMonitors ==
    /\ InitState
    /\ xin = NoExec
    /\ xout = NoExec
    /\ mon = [sd |-> "running",
              issue |-> [pc |-> "new", session |-> "none", cancel |-> FALSE,
                         attempt |-> 0, delay |-> 0, pending |-> <<>>, cur |-> 0,
                         processed_issues |-> {},
                         calls |-> [n \in Numbers |-> 0],
                         fix_prs |-> [n \in Numbers |-> 0]],
              pr |-> [pc |-> "new", session |-> "none", cancel |-> FALSE,
                      pending |-> <<>>, cur |-> 0,
                      monitored_prs |-> {},
                      incidents |-> [n \in Numbers |-> 0]]]

\* The for loop of check_and_process_issues over the issues left: issues
\* in processed_issues are skipped, the first other one is handed to
\* process_issue, which runs to its first await; with none left the loop of
\* start_monitoring sleeps.
IssueLoop(m, list) ==
    LET todo == SelectSeq(list, LAMBDA n : n \notin m.processed_issues)
    IN IF todo = <<>>
       THEN [m EXCEPT !.pc = "sleep", !.pending = <<>>, !.cur = 0]
       ELSE [m EXCEPT !.pc = "process", !.cur = Head(todo), !.pending = Tail(todo),
                      !.calls[Head(todo)] = @ + 1]

\* Seeded fault: a failed attempt is always retried.
get_open_issues_unbounded(m, out, list) ==
    IF out = "200" THEN IssueLoop(m, list)
    ELSE IF out = "403" THEN IssueLoop(m, <<>>)
    ELSE [m EXCEPT !.pc = "backoff", !.delay = retry_delay * (m.attempt + 1)]

\* One attempt of get_open_issues has been answered: 200 returns the
\* issues, 403 returns [], any other status or exception is retried after
\* a sleep unless it was the last attempt.
get_open_issues(m, out, list) ==
    IF out = "200" THEN IssueLoop(m, list)
    ELSE IF out = "403" THEN IssueLoop(m, <<>>)
    ELSE IF m.attempt < max_retries - 1
         THEN [m EXCEPT !.pc = "backoff", !.delay = retry_delay * (m.attempt + 1)]
         ELSE IssueLoop(m, <<>>)

\* The task starts: the session is created and the first request is sent.
IssueStart ==
    /\ mon.issue.pc = "new"
    /\ ~mon.issue.cancel
    /\ mon' = [mon EXCEPT !.issue.pc = "get", !.issue.session = "open"]
    /\ UNCHANGED <<taskVars, incVars, incident_jira_mapping, reqs, clock, xin, xout>>

IssueGet ==
    /\ mon.issue.pc = "get"
    /\ ~mon.issue.cancel
    /\ \A n \in Numbers : mon.issue.calls[n] < MaxCalls
    /\ \E out \in {"200", "403", "500", "timeout", "error"}, list \in Listings :
         mon' = [mon EXCEPT !.issue = get_open_issues(@, out, list)]
    /\ UNCHANGED <<taskVars, incVars, incident_jira_mapping, reqs, clock, xin, xout>>

\* Seeded fault: the issue is marked only when its fix PR was created.
IssueProcessedMarksOnSuccess ==
    /\ mon.issue.pc = "process"
    /\ ~mon.issue.cancel
    /\ \A n \in Numbers : mon.issue.calls[n] < MaxCalls /\ mon.issue.fix_prs[n] < MaxCalls
    /\ \E out \in {"labelled", "pr_created", "pr_failed", "exception"} :
         LET m == mon.issue
             done == [m EXCEPT !.fix_prs[m.cur] = IF out = "pr_created" THEN @ + 1 ELSE @,
                               !.processed_issues =
                                   IF out = "pr_created" THEN @ \cup {m.cur} ELSE @]
         IN mon' = [mon EXCEPT !.issue = IssueLoop(done, m.pending)]
    /\ UNCHANGED <<taskVars, incVars, incident_jira_mapping, reqs, clock, xin, xout>>

\* process_issue returns (it catches every Exception): the issue already
\* carried the label, the fix PR was created, create_fix_pr returned None,
\* or a step raised.  The issue is marked and the for loop goes on.
IssueProcessed ==
    /\ mon.issue.pc = "process"
    /\ ~mon.issue.cancel
    /\ \A n \in Numbers : mon.issue.calls[n] < MaxCalls /\ mon.issue.fix_prs[n] < MaxCalls
    /\ \E out \in {"labelled", "pr_created", "pr_failed", "exception"} :
         LET m == mon.issue
             done == [m EXCEPT !.fix_prs[m.cur] = IF out = "pr_created" THEN @ + 1 ELSE @,
                               !.processed_issues = @ \cup {m.cur}]
         IN mon' = [mon EXCEPT !.issue = IssueLoop(done, m.pending)]
    /\ UNCHANGED <<taskVars, incVars, incident_jira_mapping, reqs, clock, xin, xout>>

\* The for loop of monitor_loop over recent_prs: process_new_pr returns at
\* once for a PR in monitored_prs and otherwise runs to its first await.
PRLoop(m, list) ==
    LET todo == SelectSeq(list, LAMBDA n : n \notin m.monitored_prs)
    IN IF todo = <<>>
       THEN [m EXCEPT !.pc = "sleep", !.pending = <<>>, !.cur = 0]
       ELSE [m EXCEPT !.pc = "process", !.cur = Head(todo), !.pending = Tail(todo)]

\* start_github_monitor: __aenter__ creates the session and monitor_loop
\* sends its first request.
PRStart ==
    /\ mon.pr.pc = "new"
    /\ ~mon.pr.cancel
    /\ mon' = [mon EXCEPT !.pr.pc = "get", !.pr.session = "open"]
    /\ UNCHANGED <<taskVars, incVars, incident_jira_mapping, reqs, clock, xin, xout>>

\* get_recent_prs returns the PRs updated since last_check or not yet in
\* monitored_prs, or [] on an error.
PRGet ==
    /\ mon.pr.pc = "get"
    /\ ~mon.pr.cancel
    /\ \E list \in Listings : mon' = [mon EXCEPT !.pr = PRLoop(@, list)]
    /\ UNCHANGED <<taskVars, incVars, incident_jira_mapping, reqs, clock, xin, xout>>

\* process_new_pr up to the decision to create an incident: the PR carries
\* the label, a step raised, or the analysis is back.
PRAnalyzed ==
    /\ mon.pr.pc = "process"
    /\ ~mon.pr.cancel
    /\ \E out \in {"labelled", "exception", "incident", "clean"} :
         LET m == mon.pr
         IN mon' = [mon EXCEPT !.pr =
                CASE out = "labelled" ->
                        PRLoop([m EXCEPT !.monitored_prs = @ \cup {m.cur}], m.pending)
                  [] out = "exception" -> PRLoop(m, m.pending)
                  [] out = "incident" -> [m EXCEPT !.pc = "creating"]
                  [] OTHER -> [m EXCEPT !.pc = "comment"]]
    /\ UNCHANGED <<taskVars, incVars, incident_jira_mapping, reqs, clock, xin, xout>>

\* create_incident returns: the incident manager created the incident, or
\* raised and the exception was logged.
PRCreated ==
    /\ mon.pr.pc = "creating"
    /\ ~mon.pr.cancel
    /\ mon.pr.incidents[mon.pr.cur] < MaxCalls
    /\ \E created \in BOOLEAN :
         mon' = [mon EXCEPT !.pr.pc = "comment",
                            !.pr.incidents[mon.pr.cur] = IF created THEN @ + 1 ELSE @]
    /\ UNCHANGED <<taskVars, incVars, incident_jira_mapping, reqs, clock, xin, xout>>

\* Seeded fault: the PR is marked only when the comment was posted.
PRCommentedMarksIfPosted ==
    /\ mon.pr.pc = "comment"
    /\ ~mon.pr.cancel
    /\ \E posted \in BOOLEAN :
         LET m == mon.pr
         IN mon' = [mon EXCEPT !.pr =
                PRLoop([m EXCEPT !.monitored_prs = IF posted THEN @ \cup {m.cur} ELSE @],
                       m.pending)]
    /\ UNCHANGED <<taskVars, incVars, incident_jira_mapping, reqs, clock, xin, xout>>

\* create_pr_comment returns True or False; the PR is marked either way.
PRCommented ==
    /\ mon.pr.pc = "comment"
    /\ ~mon.pr.cancel
    /\ \E posted \in BOOLEAN :
         LET m == mon.pr
         IN mon' = [mon EXCEPT !.pr =
                PRLoop([m EXCEPT !.monitored_prs = @ \cup {m.cur}], m.pending)]
    /\ UNCHANGED <<taskVars, incVars, incident_jira_mapping, reqs, clock, xin, xout>>

\* asyncio.sleep returns: the retry sleep of get_open_issues leads to the
\* next attempt, the sleep of a loop to the next poll.
SleepDone ==
    /\ \/ /\ mon.issue.pc = "backoff"
          /\ ~mon.issue.cancel
          /\ mon' = [mon EXCEPT !.issue.pc = "get", !.issue.attempt = @ + 1,
                                !.issue.delay = 0]
       \/ /\ mon.issue.pc = "sleep"
          /\ ~mon.issue.cancel
          /\ mon' = [mon EXCEPT !.issue.pc = "get", !.issue.attempt = 0]
       \/ /\ mon.pr.pc = "sleep"
          /\ ~mon.pr.cancel
          /\ mon' = [mon EXCEPT !.pr.pc = "get"]
    /\ UNCHANGED <<taskVars, incVars, incident_jira_mapping, reqs, clock, xin, xout>>

Awaits == {"get", "backoff", "process", "creating", "comment", "sleep"}

\* Seeded fault: CancelledError is caught like any other exception and the
\* loop goes on.
CancelledSwallowed ==
    /\ \/ /\ mon.issue.cancel
          /\ mon.issue.pc \in Awaits \cup {"new"}
          /\ mon' = [mon EXCEPT !.issue.cancel = FALSE, !.issue.pc = "sleep",
                                !.issue.session = "open"]
       \/ /\ mon.pr.cancel
          /\ mon.pr.pc \in Awaits \cup {"new"}
          /\ mon' = [mon EXCEPT !.pr.cancel = FALSE, !.pr.pc = "sleep",
                                !.pr.session = "open"]
    /\ UNCHANGED <<taskVars, incVars, incident_jira_mapping, reqs, clock, xin, xout>>

\* The await a cancelled task is suspended at raises CancelledError.  No
\* handler on the way catches it except the one of start_monitoring; both
\* loops leave through their finally block, which awaits session.close().
\* A task cancelled before its first step never runs.
Cancelled ==
    /\ \/ /\ mon.issue.cancel
          /\ mon.issue.pc \in Awaits \cup {"new"}
          /\ mon' = [mon EXCEPT !.issue.cancel = FALSE,
                                !.issue.pc = IF mon.issue.pc = "new" THEN "ended"
                                             ELSE "closing"]
       \/ /\ mon.pr.cancel
          /\ mon.pr.pc \in Awaits \cup {"new"}
          /\ mon' = [mon EXCEPT !.pr.cancel = FALSE,
                                !.pr.pc = IF mon.pr.pc = "new" THEN "ended"
                                          ELSE "closing"]
    /\ UNCHANGED <<taskVars, incVars, incident_jira_mapping, reqs, clock, xin, xout>>

\* session.close() returns and the task ends.
SessionClosed ==
    /\ \/ /\ mon.issue.pc = "closing"
          /\ mon' = [mon EXCEPT !.issue.pc = "ended", !.issue.session = "closed"]
       \/ /\ mon.pr.pc = "closing"
          /\ mon' = [mon EXCEPT !.pr.pc = "ended", !.pr.session = "closed"]
    /\ UNCHANGED <<taskVars, incVars, incident_jira_mapping, reqs, clock, xin, xout>>

\* lifespan after the yield: cancel the PR monitor task and await it, then
\* the issue monitor task, then close the services.
lifespan_shutdown ==
    /\ \/ /\ mon.sd = "running"
          /\ mon' = [mon EXCEPT !.sd = "await_pr",
                                !.pr.cancel = mon.pr.pc # "ended"]
       \/ /\ mon.sd = "await_pr"
          /\ mon.pr.pc = "ended"
          /\ mon' = [mon EXCEPT !.sd = "await_issue",
                                !.issue.cancel = mon.issue.pc # "ended"]
       \/ /\ mon.sd = "await_issue"
          /\ mon.issue.pc = "ended"
          /\ mon' = [mon EXCEPT !.sd = "done"]
    /\ UNCHANGED <<taskVars, incVars, incident_jira_mapping, reqs, clock, xin, xout>>

NextMonitors ==
    \/ IssueStart
    \/ IssueGet
    \/ IssueProcessed
    \/ PRStart
    \/ PRGet
    \/ PRAnalyzed
    \/ PRCreated
    \/ PRCommented
    \/ SleepDone
    \/ Cancelled
    \/ SessionClosed
    \/ lifespan_shutdown

SpecMonitors == InitMonitors /\ [][NextMonitors]_vars

\* Once the shutdown has begun the loop keeps running the handler and the
\* cancelled tasks.
FairSpecMonitors ==
    /\ SpecMonitors
    /\ WF_vars(Cancelled)
    /\ WF_vars(SessionClosed)
    /\ WF_vars(lifespan_shutdown /\ mon.sd # "running")

\* ------------------------------------- detection and creation on one payload
\* The handlers, the detector and create_incident_from_signal as functions
\* of the payload: every delivery of a run carries the payload drawn at the
\* start, and the pipeline behind the created incident is left out.
M_Fix == <<"F","i","x">>
Messages == {M_HOTFIX, M_add, M_prefix, M_Fix, S_urgent, S_critical}
CommitLists ==
    {<<>>} \cup {<<m>> : m \in Messages} \cup {<<m, n>> : m \in Messages, n \in Messages}

DetectInputs ==
    {Webhook(ep, ev, GitPayload(cs, FALSE, NoTitle, mal)) :
        ep \in {"github", "git"}, ev \in {"push", "hotfix_commit", "ping"},
        cs \in CommitLists, mal \in BOOLEAN}
    \cup {Webhook(ep, "pull_request", GitPayload(<<>>, pr, ti, FALSE)) :
        ep \in {"github", "git"}, pr \in BOOLEAN, ti \in {NoTitle, S_bug, M_add, M_HOTFIX}}
    \cup {Webhook("copado", ev, CopadoPayload(bad)) :
        ev \in {"deployment_failed", "test_failed", "build_failed", "pipeline_failed",
                "deployment_completed"},
        bad \in BOOLEAN}
    \cup {Webhook("salesforce", ev, SalesforcePayload(op, ac, n)) :
        ev \in {"audit_trail", "audit_alert"}, op \in {OpNone, OpModifyProfile, S_delete},
        ac \in {"DELETE", "UPDATE"}, n \in {0, 10, 11, 100, 101}}

InitDetect ==
    /\ InitState
    /\ xin \in DetectInputs
    /\ xout = NoExec
    /\ mon = NoMonitor

NextDetect ==
    \/ \E t \in Tasks : github_webhook(t, xin)
    \/ \E t \in Tasks : copado_webhook(t, xin)
    \/ \E t \in Tasks : salesforce_webhook(t, xin)
    \/ \E t \in Tasks : git_webhook(t, xin)
    \/ \E t \in Tasks : BackgroundRun(t)

SpecDetect == InitDetect /\ [][NextDetect]_vars

\* The four webhooks with their pipeline, every outcome of the analysis
\* included.
NextWebhook ==
    \/ \E t \in Tasks, w \in WebhookInputs : github_webhook(t, w)
    \/ \E t \in Tasks, w \in WebhookInputs : copado_webhook(t, w)
    \/ \E t \in Tasks, w \in WebhookInputs : salesforce_webhook(t, w)
    \/ \E t \in Tasks, w \in WebhookInputs : git_webhook(t, w)
    \/ \E t \in Tasks : BackgroundRun(t)
    \/ \E t \in Tasks : AnalyzeStart(t)
    \/ \E t \in Tasks : Analyze(t)
    \/ \E t \in Tasks : ExecDone(t)
    \/ \E t \in Tasks : Resolve(t)
    \/ \E t \in Tasks : SyncDone(t)

SpecWebhook == Init /\ [][NextWebhook]_vars

TypeOK ==
    /\ \A t \in Tasks : status[t] \in IncidentStatus \cup {"none"}
    /\ \A t \in Tasks : store[t] \in {"none", "main", "manager"}

\* ------------------------------------------------------------------ claims
Created(t) == store[t] # "none"

\* C1: in every reachable state an incident's resolved_at is set exactly
\* when its status is resolved.  (update_incident_status writes resolved_at
\* when it sets resolved and never clears it; the except branch of
\* analyze_and_act sets failed and leaves it.)
C1_ResolvedAtIffResolved ==
    \A t \in Tasks : Created(t) => ((resolved_at[t] # 0) <=> (status[t] = "resolved"))

\* C2: an incident whose status is resolved is moved to open or in_progress
\* only by a manual status request, never by a step of analyze_and_act or
\* of resolve_incident_with_jira_sync.
C2_NoAutomaticReopen ==
    [][\A t \in Tasks :
          (status[t] = "resolved" /\ status'[t] \in {"open", "in_progress"})
              => \E r \in Requests : reqs[r].pc = "idle" /\ reqs'[r].pc = "syncing"]_vars

\* A pipeline step has acted on an incident that a manual request had
\* resolved: the except branch took it from resolved to failed.
C2_Witness ==
    \E t \in Tasks : pc[t] = "failed" /\ status[t] = "failed" /\ resolved_at[t] # 0

\* C3: a webhook whose event type is allow-listed is answered 200
\* {status: "received"}, also when the detector, the incident creation, the
\* analysis or an external call fails; no handler ends with an exception.
C3_AlwaysReceived ==
    \A t \in Tasks :
        /\ resp[t] # "error_500"
        /\ (pc[t] \in {"queued", "done", "failed", "error", "no_anomaly"} /\ store[t] # "manager")
              => resp[t] = "received"

\* The analysis of a Copado incident failed inside the awaited handler and
\* the handler has answered.
C3_Witness ==
    \E t \in Tasks : pc[t] = "failed" /\ source[t] = "copado" /\ resp[t] = "received"

IncidentCount == Cardinality({t \in Tasks : Created(t)})

\* C4: processing an event whose Signal is not an anomaly leaves the number
\* of incidents unchanged, and an incident is only ever created from a
\* Signal with is_anomaly set.
C4_NoIncidentWithoutAnomaly ==
    [][\A t \in Tasks :
          /\ (pc[t] # "no_anomaly" /\ pc'[t] = "no_anomaly") => IncidentCount' = IncidentCount
          /\ (pc[t] # "created" /\ pc'[t] = "created") => signal'[t].is_anomaly]_vars

\* An event was processed to the end with a non-anomalous Signal while
\* another event's incident exists.
C4_Witness ==
    \E t, u \in Tasks : pc[t] = "no_anomaly" /\ ~Created(t) /\ Created(u)

\* C5: an incident created from an allow-listed Copado failure webhook is
\* stored as open, the next step of its pipeline moves it to in_progress,
\* and it reaches resolved or failed.
C5_CopadoReachesEnd ==
    /\ [][\A t \in Tasks :
            /\ (pc[t] = "idle" /\ pc'[t] = "created") => status'[t] = "open"
            /\ (pc[t] = "created" /\ pc'[t] # "created" /\ source[t] = "copado")
                  => (pc'[t] = "analyzing" /\ status'[t] = "in_progress")]_vars
    /\ \A t \in Tasks :
          (pc[t] = "created" /\ source[t] = "copado") ~> (status[t] \in {"resolved", "failed"})

\* A Copado incident went through the whole pipeline.
C5_Witness ==
    \E t \in Tasks : pc[t] = "done" /\ source[t] = "copado" /\ status[t] = "resolved"

C7_RejectedStatusRequest ==
    [][\A r \in Requests : (reqs[r].pc = "idle" /\ reqs'[r].pc # "idle") =>
          \A id \in Tasks, ns \in StatusInputs :
              ((store[id] # "main" \/ StatusLower(ns) \notin IncidentStatus)
                 /\ update_incident_status(r, id, ns)) =>
                  /\ reqs'[r].pc = "responded"
                  /\ reqs'[r].code = IF store[id] # "main" THEN 404 ELSE 400
                  /\ UNCHANGED <<incVars, incident_jira_mapping, clock>>]_vars

\* A request with an invalid status on a stored incident was answered 400.
C7_Witness ==
    \E r \in Requests :
        /\ reqs[r].pc = "responded"
        /\ reqs[r].code = 400
        /\ store[reqs[r].id] = "main"

Returned == xout # NoExec
Executed == Returned /\ xin.kind = "execute_actions"

HasRecord(type) ==
    \E k \in 1..Len(xout.actions) : xout.actions[k].action_type = type

RecordStatus(type, st) ==
    \E k \in 1..Len(xout.actions) :
        xout.actions[k].action_type = type /\ xout.actions[k].status = st

\* The external calls execute_actions attempts, and the ones that fail.
GithubAttempted ==
    xin.cfg.github_token /\ xin.inc.source \in {"git", "github_pr"} /\ xin.inc.has_pr
SlackAttempted == xin.cfg.slack_webhook
RollbackAttempted == xin.inc.severity = "critical" /\ xin.conf > 80
Failed(out) == out \in {"error", "exception"}
JiraFailed == xin.o.jira \in {"http_error", "ctor_error"}

\* C8 as stated: execute_actions returns without raising, its list holds a
\* ticket record and a chat record, and every external call that failed,
\* the ticket creation included, shows as a record with status failed.
C8_FailedCallsReportFailed ==
    Executed =>
        /\ ~xout.raised
        /\ HasRecord("jira_user_story")
        /\ HasRecord("slack_notification")
        /\ JiraFailed => RecordStatus("jira_user_story", "failed")
        /\ (GithubAttempted /\ Failed(xin.o.github)) => RecordStatus("github_comment", "failed")
        /\ (SlackAttempted /\ Failed(xin.o.slack)) => RecordStatus("slack_notification", "failed")
        /\ (RollbackAttempted /\ Failed(xin.o.rollback))
              => RecordStatus("automated_rollback", "failed")

\* C8, amended: execute_actions returns without raising and its list holds
\* a ticket record and a chat record; a failed comment, chat or rollback
\* call shows as a record with status failed, and a failed ticket creation
\* shows as a fallback ticket record with status success.
C8_FailedCallsAreRecorded ==
    Executed =>
        /\ ~xout.raised
        /\ HasRecord("jira_user_story")
        /\ HasRecord("slack_notification")
        /\ JiraFailed => (RecordStatus("jira_user_story", "success")
                            /\ ~RecordStatus("jira_user_story", "failed"))
        /\ (GithubAttempted /\ Failed(xin.o.github)) => RecordStatus("github_comment", "failed")
        /\ (SlackAttempted /\ Failed(xin.o.slack)) => RecordStatus("slack_notification", "failed")
        /\ (RollbackAttempted /\ Failed(xin.o.rollback))
              => RecordStatus("automated_rollback", "failed")

\* execute_actions has returned from a call in which the ticket, the
\* comment, the chat and the rollback call all failed.
C8_Witness ==
    /\ Executed
    /\ xin.o.jira = "ctor_error"
    /\ GithubAttempted /\ xin.o.github = "exception"
    /\ SlackAttempted /\ xin.o.slack = "exception"
    /\ RollbackAttempted /\ xin.o.rollback = "error"

ActionStatuses == {"success", "failed", "skipped"}

\* C9: every action record has a status in {success, failed, skipped}: the
\* entries of every incident's actions_taken and the records returned by
\* execute_actions and by sync_jira_status.
C9_StatusInEnum ==
    /\ \A t \in Tasks : \A k \in 1..Len(actions_taken[t]) :
          actions_taken[t][k].status \in ActionStatuses
    /\ Returned => \A k \in 1..Len(xout.actions) : xout.actions[k].status \in ActionStatuses

\* C10: actions_taken only grows: each step leaves the entries recorded so
\* far in place, in order, at the head of the list.
C10_AppendOnly ==
    [][\A t \in Tasks :
          /\ Len(actions_taken'[t]) >= Len(actions_taken[t])
          /\ SubSeq(actions_taken'[t], 1, Len(actions_taken[t])) = actions_taken[t]]_vars

\* The PR monitor has appended its comment entry behind the entries that
\* IncidentManager recorded.
C10_Witness ==
    \E t \in Tasks :
        /\ pc[t] = "done"
        /\ store[t] = "manager"
        /\ Len(actions_taken[t]) >= 3

\* "fallback" in root_cause.lower()
HasFallback(rc) == Contains(LowerStr(rc), S_fallback)

AnalysisFailed(t) ==
    /\ pc'[t] = "failed"
    /\ status'[t] = "failed"
    /\ root_cause'[t] = RC_AnalysisFailed
    /\ confidence_score'[t] = 0
    /\ resp'[t] # "error_500"

NoRetry ==
    \A t \in Tasks : pc[t] = "failed" => (pc'[t] = "failed" /\ status'[t] = "failed")

\* C11 as stated: when an engine of analyze_and_act raises, and in
\* particular when the remote AI call throws, the incident ends failed with
\* root_cause "Analysis failed" and confidence_score 0.0, nothing reaches
\* the caller and the analysis is not run again.
C11_AnalysisFailureFails ==
    [][/\ \A t \in Tasks : (pc[t] = "analyzing" /\ pc'[t] # "analyzing") =>
            \A ai \in AiOutcomes, eng \in EngineOutcomes, conf \in ConfLevels :
                ((eng = "raise" \/ ai = "remote_error") /\ AnalyzeWith(t, ai, eng, conf))
                    => AnalysisFailed(t)
       /\ NoRetry]_vars

\* C11, amended: when an engine raises out of its call the incident ends
\* failed with root_cause "Analysis failed" and confidence_score 0.0,
\* nothing reaches the caller and the analysis is not run again; a remote AI
\* call that throws is absorbed by the analyzer's fallback, and the
\* incident goes on with the fallback root cause and a positive confidence.
C11_EngineFailureFails ==
    [][/\ \A t \in Tasks : (pc[t] = "analyzing" /\ pc'[t] # "analyzing") =>
            \A ai \in AiOutcomes, eng \in EngineOutcomes, conf \in ConfLevels :
                /\ (eng = "raise" /\ AnalyzeWith(t, ai, eng, conf)) => AnalysisFailed(t)
                /\ (eng = "ok" /\ ai = "remote_error" /\ AnalyzeWith(t, ai, eng, conf)) =>
                      /\ pc'[t] = "executing"
                      /\ status'[t] = status[t]
                      /\ HasFallback(root_cause'[t])
                      /\ confidence_score'[t] > 0
       /\ NoRetry]_vars

\* The analysis of a Salesforce incident raised in the background task.
C11_Witness ==
    \E t \in Tasks :
        /\ pc[t] = "failed"
        /\ source[t] = "salesforce"
        /\ root_cause[t] = RC_AnalysisFailed
        /\ confidence_score[t] = 0

Analyzed == xout # NoExec /\ xin.kind = "analyze_incident"
RemoteFailed == Analyzed /\ xin.ai = "remote_error"

\* C12 as stated: when the remote AI call fails, analyze_incident returns
\* without raising an analysis whose root_cause contains "fallback" (in any
\* case) and whose confidence is fixed by the incident source alone, 0.6
\* for git.
C12_FallbackBySource ==
    RemoteFailed =>
        /\ ~xout.raised
        /\ HasFallback(xout.root_cause)
        /\ xin.source = "git" => xout.confidence = 60
        /\ \A text \in SUBSET FallbackPatterns :
              fallback_analysis(xin.source, text).confidence = xout.confidence

\* C12, amended: when the remote AI call fails, analyze_incident returns
\* without raising an analysis whose root_cause contains "fallback" (in any
\* case); its confidence is fixed by the source for every source but
\* copado (0.6 git, 0.78 salesforce, 0.75 any other), and for copado by the
\* failure keywords in the incident's text (0.80 when there is none).
C12_FallbackBySourceAndText ==
    RemoteFailed =>
        /\ ~xout.raised
        /\ HasFallback(xout.root_cause)
        /\ xin.source = "git" => xout.confidence = 60
        /\ xin.source = "salesforce" => xout.confidence = 78
        /\ xin.source = "github_pr" => xout.confidence = 75
        /\ xin.source = "copado" =>
              /\ xout.confidence \in {78, 80, 85, 87, 88, 92}
              /\ xin.text = {} => xout.confidence = 80
        /\ xin.source # "copado" =>
              \A text \in SUBSET FallbackPatterns :
                  fallback_analysis(xin.source, text).confidence = xout.confidence

\* The analyzer has answered a git incident whose remote call failed.
C12_Witness ==
    /\ RemoteFailed
    /\ xin.source = "git"
    /\ xin.text # {}
    /\ xout.confidence = 60

\* The allow-lists of the three handlers that have one; salesforce_webhook
\* has none.
ListedEndpoints == {"github", "copado", "git"}
AllowList(ep) ==
    CASE ep = "github" -> {"push", "pull_request"}
      [] ep = "copado" -> {"deployment_failed", "test_failed", "build_failed"}
      [] ep = "git" -> {"push", "pull_request", "hotfix_commit"}

Delivered(t, w) ==
    \/ github_webhook(t, w)
    \/ copado_webhook(t, w)
    \/ salesforce_webhook(t, w)
    \/ git_webhook(t, w)

C14_SeverityFromSignal ==
    /\ [][\A t \in Tasks : (pc[t] # "created" /\ pc'[t] = "created") =>
            /\ severity'[t] = IF signal'[t].severity > 7 THEN "high" ELSE "medium"
            /\ (hook'[t].endpoint = "copado" /\ hook'[t].event_type = "deployment_failed")
                  => severity'[t] = "high"]_vars
    /\ [](\A t \in Tasks : store[t] = "main" => severity[t] \in {"high", "medium"})

\* An incident was created from a Signal of severity exactly 0.7.
C14_Witness ==
    \E t \in Tasks :
        /\ pc[t] = "created"
        /\ store[t] = "main"
        /\ signal[t].severity = 7
        /\ severity[t] = "medium"

\* C15: the list execute_actions returns holds an automated_rollback
\* record exactly when the incident's severity is critical and the
\* analysis confidence is strictly above 0.8; in every other case the
\* rollback is neither attempted nor recorded.
C15_RollbackOnlyWhenCritical ==
    Executed =>
        (HasRecord("automated_rollback")
            <=> (xin.inc.severity = "critical" /\ xin.conf > 80))

\* A rollback was triggered for a critical incident analysed with
\* confidence 0.9, and the rollback call succeeded.
C15_Witness ==
    /\ Executed
    /\ xin.inc.severity = "critical"
    /\ xin.conf = 90
    /\ xin.o.rollback = "ok"
    /\ RecordStatus("automated_rollback", "success")

GitPush ==
    /\ xin.endpoint \in {"github", "git"}
    /\ xin.event_type = "push"
    /\ ~xin.data.malformed

\* Some commit message holds one of the four keywords, in any case.
KeywordCommit ==
    \E k \in 1..Len(xin.data.commits) :
        \E p \in {S_fix, S_hotfix, S_urgent, S_critical} :
            Contains([j \in 1..Len(xin.data.commits[k]) |-> Lower(xin.data.commits[k][j])], p)

\* C16: for a git push the detector's Signal is an anomaly of severity at
\* least 0.6 when some commit message contains fix, hotfix, urgent or
\* critical in any case, and otherwise not an anomaly with severity 0.0;
\* the handler creates an incident in the first case only.
C16_PushKeywords ==
    /\ [](GitPush =>
            LET sig == analyze_git_event(xin.event_type, xin.data)
            IN /\ ~sig.raised
               /\ KeywordCommit => (sig.is_anomaly /\ sig.severity >= 6)
               /\ ~KeywordCommit => (~sig.is_anomaly /\ sig.severity = 0))
    /\ [][\A t \in Tasks :
            (GitPush /\ pc[t] \in {"idle", "queued"} /\ pc'[t] \notin {"idle", "queued"}) =>
                IF KeywordCommit
                THEN pc'[t] = "created" /\ signal'[t].is_anomaly /\ signal'[t].severity >= 6
                ELSE pc'[t] = "no_anomaly" /\ store'[t] = "none"]_vars

\* A push whose second commit is "HOTFIX" has created an incident.
C16_Witness ==
    \E t \in Tasks :
        /\ GitPush
        /\ xin.data.commits = <<M_add, M_HOTFIX>>
        /\ pc[t] = "created"
        /\ signal[t].is_anomaly
        /\ signal[t].severity = 6

\* C17: a status request with a valid id and status writes the requested
\* status; when the awaited ticket sync ends, whatever its outcome, the
\* request is answered 200 and no incident field is changed back.  The same
\* holds for the sync at the end of analyze_and_act: the task ends and the
\* incident is left as it was.
C17_SyncFailureNotSurfaced ==
    [][/\ \A r \in Requests :
            /\ (reqs[r].pc = "idle" /\ reqs'[r].pc = "syncing")
                  => status'[reqs'[r].id] = reqs'[r].new_status
            /\ (reqs[r].pc = "syncing" /\ reqs'[r].pc # "syncing") =>
                  /\ reqs'[r].pc = "responded"
                  /\ reqs'[r].code = 200
                  /\ reqs'[r].new_status = reqs[r].new_status
                  /\ UNCHANGED incVars
       /\ \A t \in Tasks : (pc[t] = "syncing" /\ pc'[t] # "syncing") =>
            /\ pc'[t] = "done"
            /\ resp'[t] # "error_500"
            /\ UNCHANGED incVars]_vars

\* A request that closed an incident was answered 200 and the incident is
\* closed.
C17_Witness ==
    \E r \in Requests :
        /\ reqs[r].pc = "responded"
        /\ reqs[r].code = 200
        /\ reqs[r].new_status = "closed"
        /\ status[reqs[r].id] = "closed"

\* The position of a step in execute_actions.
StepRank(type) ==
    CASE type = "jira_user_story" -> 1
      [] type = "github_comment" -> 2
      [] type = "slack_notification" -> 3
      [] type = "automated_rollback" -> 4
      [] OTHER -> 0

\* C18: the records of one execute_actions call are in the order ticket,
\* comment, chat notification, rollback, with the ticket first and exactly
\* one chat notification after it; the id handed to the chat notification
\* is the one the ticket step returned.
C18_StepsInOrder ==
    (Returned /\ xin.kind = "execute_actions") =>
        LET a == xout.actions
        IN /\ Len(a) >= 2
           /\ a[1].action_type = "jira_user_story"
           /\ \A k \in 1..Len(a) : StepRank(a[k].action_type) > 0
           /\ \A i, j \in 1..Len(a) :
                i < j => StepRank(a[i].action_type) < StepRank(a[j].action_type)
           /\ \E k \in 2..Len(a) : a[k].action_type = "slack_notification"
           /\ xout.notified = a[1].result
           /\ xout.notified \in {"issue_key", "user_story_id"}

\* A call that ran all four steps and notified with a real issue key.
C18_Witness ==
    /\ Returned
    /\ xin.kind = "execute_actions"
    /\ Len(xout.actions) = 4
    /\ xout.actions[4].action_type = "automated_rollback"
    /\ xout.actions[2].action_type = "github_comment"
    /\ xout.notified = "issue_key"

\* The pipeline of task t has run to its end: the event was dropped, raised
\* no incident, or analyze_and_act has returned.
PipelineEnded(t) == pc[t] \in {"dropped", "no_anomaly", "error", "done", "failed"}

\* C19: whenever a webhook has answered {status: "received"}, the whole
\* pipeline of its event (detection, incident creation, analyze_and_act) has
\* already run to completion.
C19_ProcessedBeforeResponse ==
    \A t \in Tasks : resp[t] = "received" => PipelineEnded(t)

\* C20: once an incident's resolved_at is set, no later step (a resolve
\* request, the completion of the pipeline) writes another value to it.
C20_ResolvedAtSetOnce ==
    [][\A t \in Tasks : resolved_at[t] # 0 => resolved_at'[t] = resolved_at[t]]_vars

\* C21: no incident ever has status closed.
C21_NeverClosed == \A t \in Tasks : status[t] # "closed"

\* The step that changes the status of incident t calls sync_jira_status,
\* or leaves its handler awaiting that call.
Mirrored(t) ==
    \/ pc'[t] = "syncing"
    \/ \E r \in Requests :
          reqs[r].pc = "idle" /\ reqs'[r].pc = "syncing" /\ reqs'[r].id = t
    \/ t \in incident_jira_mapping /\ pc'[t] \in {"analyzing", "pr_sleep", "pr_comment"}

\* C22: every step that changes the status of an existing incident is
\* accompanied by an attempt to mirror the new status onto the ticket.
C22_StatusChangeMirrored ==
    [][\A t \in Tasks :
          (status[t] # "none" /\ status'[t] # status[t]) => Mirrored(t)]_vars

\* analyze_and_act of task t is suspended at an await before its final
\* transition.
Suspended(t) == pc[t] \in {"analyzing", "executing", "sleep2"}

\* C23: when a suspended analyze_and_act resumes and makes its final
\* transition, it writes resolved (failed on an exception) whatever status
\* a request wrote while it was suspended.
C23_PipelineWriteWins ==
    [][\A t \in Tasks :
          Suspended(t) =>
             /\ pc'[t] = "syncing" => status'[t] = "resolved"
             /\ pc'[t] = "failed" => status'[t] = "failed"]_vars

\* A request wrote open while the pipeline was suspended; the pipeline has
\* ended and the incident is resolved.
C23_Witness ==
    \E r \in Requests :
        /\ reqs[r].pc = "responded"
        /\ reqs[r].code = 200
        /\ reqs[r].new_status = "open"
        /\ pc[reqs[r].id] = "done"
        /\ source[reqs[r].id] = "copado"
        /\ status[reqs[r].id] = "resolved"

\* C24: once analyze_and_act has written an incident's root_cause,
\* confidence_score or suggested_actions, no later step changes the value,
\* whether the analysis succeeded or failed.
C24_AnalysisWrittenOnce ==
    [][\A t \in Tasks :
          /\ root_cause[t] # RC_None => root_cause'[t] = root_cause[t]
          /\ confidence_score[t] # -1 => confidence_score'[t] = confidence_score[t]
          /\ suggested_actions[t] # <<>> => suggested_actions'[t] = suggested_actions[t]]_vars

\* A pipeline that wrote the three fields and ran to its end.
C24_Witness ==
    \E t \in Tasks :
        /\ pc[t] = "done"
        /\ root_cause[t] # RC_None
        /\ confidence_score[t] > 0
        /\ Len(suggested_actions[t]) = 5

\* The call was update_issue_status towards Done with credentials, the
\* first list offers no transition named exactly Done, and the issue is in
\* To Do.
TwoHopCase ==
    /\ xout # NoExec
    /\ xin.kind = "update_issue_status"
    /\ xin.auth
    /\ xin.incident_status = "resolved"
    /\ xin.x.get1 = "ok"
    /\ \A k \in 1..Len(xin.x.tr1) : xin.x.tr1[k] # J_Done
    /\ xin.x.cur = J_ToDo

Posts == SelectSeq(xout.calls, LAMBDA c : c.op = "post")

NamedLike(n, p) == Contains(LowerStr(n), p)

InGetOpenIssues == mon.issue.pc \in {"get", "backoff"}

\* C26: a call of get_open_issues makes at most three attempts, sleeps
\* retry_delay * k after the k-th failed attempt (k = 1, 2), and always ends
\* by returning a list to check_and_process_issues, never by raising.
C26_RetriesThenList ==
    [][/\ mon.issue.pc = "get" => mon.issue.attempt + 1 <= 3
       /\ mon.issue.pc = "backoff" =>
            /\ mon.issue.attempt + 1 \in {1, 2}
            /\ mon.issue.delay = retry_delay * (mon.issue.attempt + 1)
       /\ (InGetOpenIssues /\ ~InGetOpenIssues') =>
            mon'.issue.pc \in {"process", "sleep"}]_vars

\* C26 with cancellation: the call ends by returning a list unless the task
\* is cancelled while it awaits the request or the retry sleep; then
\* CancelledError leaves get_open_issues.  After the third failed attempt
\* the list is empty.
C26_RetriesThenListUnlessCancelled ==
    [][/\ mon.issue.pc = "get" => mon.issue.attempt + 1 <= 3
       /\ mon.issue.pc = "backoff" =>
            /\ mon.issue.attempt + 1 \in {1, 2}
            /\ mon.issue.delay = retry_delay * (mon.issue.attempt + 1)
       /\ (mon.issue.pc = "backoff" /\ mon'.issue.pc = "get") =>
            mon'.issue.attempt = mon.issue.attempt + 1
       /\ (mon.issue.pc = "get" /\ mon.issue.attempt + 1 = 3) =>
            \A out \in {"500", "timeout", "error"}, list \in Listings :
                get_open_issues(mon.issue, out, list).pc = "sleep"
       /\ (InGetOpenIssues /\ ~InGetOpenIssues') =>
            \/ mon'.issue.pc \in {"process", "sleep"} /\ ~mon.issue.cancel
            \/ mon'.issue.pc = "closing" /\ mon.issue.cancel]_vars

\* The second failed attempt is followed by a sleep of 2 * retry_delay.
C26_Witness ==
    /\ mon.sd = "running"
    /\ mon.issue.pc = "backoff"
    /\ mon.issue.attempt = 1
    /\ mon.issue.delay = 4


\* C27: once the shutdown handler has begun (it cancels the PR monitor and
\* awaits it, then the issue monitor), whatever await either loop is
\* suspended at, both tasks end, the handler gets past both awaits and
\* neither monitor is left with an open HTTP session.
C27_ShutdownCompletes ==
    (mon.sd # "running") ~>
        /\ mon.sd = "done"
        /\ mon.issue.pc = "ended" /\ mon.pr.pc = "ended"
        /\ mon.issue.session # "open" /\ mon.pr.session # "open"

C27_Witness ==
    /\ mon.sd = "done"
    /\ mon.issue.session = "closed" /\ mon.pr.session = "closed"
    /\ mon.issue.processed_issues # {} /\ mon.pr.monitored_prs # {}

C29_OneIncidentPerPR ==
    \A n \in Numbers : mon.pr.incidents[n] <= 1

C29_Witness ==
    \E n \in Numbers :
        /\ mon.pr.incidents[n] = 1
        /\ n \in mon.pr.monitored_prs
        /\ mon.pr.pc = "get"


\* C30: the old_status a status request hands to the ticket sync and
\* reports in its response is the status the incident had immediately
\* before the request wrote the new one.
C30_OldStatusIsPrevious ==
    [][\A r \in Requests :
          (reqs[r].pc = "idle" /\ reqs'[r].pc = "syncing") =>
              reqs'[r].old_status = status[reqs'[r].id]]_vars

====
